---- MODULE Spec2Model ----
(***************************************************************************)
(* A model of the vector charting engine of the dashboard                  *)
(* (apps/dashboard/src/vendor/recharts.tsx): numeric coercion, the domain  *)
(* calculator, the coordinate mapper, the axis tick selector and the       *)
(* line / area / bar renderers; and of the deployment log terminal         *)
(* (apps/dashboard/src/components/deployment/TerminalLogs.tsx): its line   *)
(* buffer and the life cycle of its WebSocket connections.                 *)
(*                                                                         *)
(* JavaScript numbers are modelled as exact rationals together with the    *)
(* three special values NaN, +Infinity and -Infinity; IEEE rounding and    *)
(* overflow are outside the model.                                         *)
(***************************************************************************)
EXTENDS Integers, Sequences, FiniteSets, TLC

VARIABLES pc, input, output

(***************************************************************************)
(* The log terminal: the component's phase and deploymentId prop, its      *)
(* React state (status, error, lines as logLines), wsRef, every WebSocket  *)
(* it has created, the stream requests of connect() still in flight, and   *)
(* the numbers of messages and of log lines the sockets have delivered.    *)
(***************************************************************************)
VARIABLES phase, deploymentId, status, error, logLines, wsRef, sockets,
          fetches, messages, arrived

chartVars == <<pc, input, output>>

terminalVars == <<phase, deploymentId, status, error, logLines, wsRef, sockets,
                  fetches, messages, arrived>>

vars == <<pc, input, output, phase, deploymentId, status, error, logLines,
          wsRef, sockets, fetches, messages, arrived>>

\* The component before it is mounted: the initial values of useState and
\* useRef, no socket created and no request sent.
TerminalInit ==
    /\ phase = "initial"
    /\ deploymentId = 1
    /\ status = "connecting"
    /\ error = "null"
    /\ logLines = <<>>
    /\ wsRef = 0
    /\ sockets = <<>>
    /\ fetches = <<>>
    /\ messages = 0
    /\ arrived = 0

(***************************************************************************)
(* Bounds of the model.                                                    *)
(***************************************************************************)
MaxStrLen == 3
MaxInt == 3
MaxRows == 2
MaxTotal == 40
MaxDomain == 5
MaxMagnitude == 6

MaxLabelLen == 12

MaxChildren == 3

(***************************************************************************)
(* JavaScript numbers.                                                     *)
(***************************************************************************)
RECURSIVE Gcd(_, _)
Gcd(a, b) == IF b = 0 THEN a ELSE Gcd(b, a % b)

Abs(x) == IF x < 0 THEN -x ELSE x

Sign(x) == IF x < 0 THEN -1 ELSE IF x = 0 THEN 0 ELSE 1

\* The rational n/d (d # 0) in lowest terms with a positive denominator.
Rat(n, d) ==
    LET g == Gcd(Abs(n), Abs(d))
        s == IF d < 0 THEN -1 ELSE 1
    IN  [t |-> "num", n |-> (s * n) \div g, d |-> (s * d) \div g]

Num(n) == [t |-> "num", n |-> n, d |-> 1]

NaN == [t |-> "nan", n |-> 0, d |-> 1]

PosInf == [t |-> "inf", n |-> 1, d |-> 1]

NegInf == [t |-> "inf", n |-> -1, d |-> 1]

Inf(s) == IF s < 0 THEN NegInf ELSE PosInf

IsNaN(x) == x.t = "nan"

\* Number.isFinite
IsFinite(x) == x.t = "num"

\* a < b and a <= b of JavaScript: false when either side is NaN.
JsLt(a, b) ==
    IF IsNaN(a) \/ IsNaN(b) THEN FALSE
    ELSE IF a.t = "inf" THEN a.n < 0 /\ b # NegInf
    ELSE IF b.t = "inf" THEN b.n > 0
    ELSE a.n * b.d < b.n * a.d

JsLe(a, b) ==
    IF IsNaN(a) \/ IsNaN(b) THEN FALSE ELSE a = b \/ JsLt(a, b)

JsNeg(a) == IF IsNaN(a) THEN NaN ELSE [a EXCEPT !.n = -a.n]

JsAdd(a, b) ==
    IF IsNaN(a) \/ IsNaN(b) THEN NaN
    ELSE IF a.t = "inf" THEN (IF b.t = "inf" /\ b.n # a.n THEN NaN ELSE a)
    ELSE IF b.t = "inf" THEN b
    ELSE Rat(a.n * b.d + b.n * a.d, a.d * b.d)

JsSub(a, b) == JsAdd(a, JsNeg(b))

JsMul(a, b) ==
    IF IsNaN(a) \/ IsNaN(b) THEN NaN
    ELSE IF a.t = "inf" \/ b.t = "inf"
         THEN (IF a.n = 0 \/ b.n = 0 THEN NaN ELSE Inf(Sign(a.n) * Sign(b.n)))
    ELSE Rat(a.n * b.n, a.d * b.d)

JsDiv(a, b) ==
    IF IsNaN(a) \/ IsNaN(b) THEN NaN
    ELSE IF a.t = "inf" THEN (IF b.t = "inf" THEN NaN
                              ELSE Inf(a.n * (IF b.n < 0 THEN -1 ELSE 1)))
    ELSE IF b.t = "inf" THEN Num(0)
    ELSE IF b.n = 0 THEN (IF a.n = 0 THEN NaN ELSE Inf(Sign(a.n)))
    ELSE Rat(a.n * b.d, a.d * b.n)

\* Math.max of two arguments: NaN when either is NaN.
JsMax2(a, b) ==
    IF IsNaN(a) \/ IsNaN(b) THEN NaN ELSE IF JsLt(a, b) THEN b ELSE a

\* Math.max(first, ...rest): NaN when an argument is NaN, and the argument
\* no other argument exceeds otherwise.
MathMax(first, rest) ==
    LET values == {first} \cup {rest[i] : i \in 1..Len(rest)}
    IN  IF \E v \in values : IsNaN(v) THEN NaN
        ELSE CHOOSE highest \in values : \A v \in values : JsLe(v, highest)

\* Math.ceil(n / d) for integers n >= 0 and d > 0.
CeilDiv(n, d) == (n + d - 1) \div d

\* Math.round of a finite number: floor(x + 1/2).
MathRound(x) ==
    IF ~IsFinite(x) THEN x ELSE Num((2 * x.n + x.d) \div (2 * x.d))

(***************************************************************************)
(* JavaScript values, as far as Number(value) tells them apart.            *)
(***************************************************************************)
Undefined == [k |-> "undefined"]

Null == [k |-> "null"]

Bool(b) == [k |-> "boolean", b |-> b]

NumberVal(x) == [k |-> "number", num |-> x]

Str(s) == [k |-> "string", s |-> s]

Symbol == [k |-> "symbol"]

BigInt(n) == [k |-> "bigint", n |-> n]

Arr(elems) == [k |-> "array", elems |-> elems]

\* An object with Object.prototype's valueOf and toString, such as {}.
PlainObject == [k |-> "object", primitive |-> TRUE]

\* An object whose valueOf and toString are both not callable, such as
\* JSON.parse('{"valueOf":1,"toString":1}'): it has no primitive value.
NoPrimitiveObject == [k |-> "object", primitive |-> FALSE]

Digits == {"0", "1", "2", "3", "4", "5", "6", "7", "8", "9"}

DigitValue(c) ==
    CASE c = "0" -> 0 [] c = "1" -> 1 [] c = "2" -> 2 [] c = "3" -> 3
      [] c = "4" -> 4 [] c = "5" -> 5 [] c = "6" -> 6 [] c = "7" -> 7
      [] c = "8" -> 8 [] c = "9" -> 9

DigitChar(n) == CHOOSE c \in Digits : DigitValue(c) = n

WhiteSpace == {" ", "\t", "\n"}

RECURSIVE TrimStart(_)
TrimStart(s) ==
    IF s # <<>> /\ Head(s) \in WhiteSpace THEN TrimStart(Tail(s)) ELSE s

RECURSIVE TrimEnd(_)
TrimEnd(s) ==
    IF s # <<>> /\ s[Len(s)] \in WhiteSpace
    THEN TrimEnd(SubSeq(s, 1, Len(s) - 1)) ELSE s

RECURSIVE Pow10(_)
Pow10(n) == IF n = 0 THEN 1 ELSE 10 * Pow10(n - 1)

\* The integer a run of digits spells.
RECURSIVE DigitsValue(_)
DigitsValue(s) ==
    IF s = <<>> THEN 0
    ELSE 10 * DigitsValue(SubSeq(s, 1, Len(s) - 1)) + DigitValue(s[Len(s)])

InfinityText == <<"I", "n", "f", "i", "n", "i", "t", "y">>

\* StrDecimalLiteral without sign and exponent: digits, with at most one
\* "." among them, and at least one digit.
IsDecimalText(s) ==
    /\ \A i \in 1..Len(s) : s[i] \in Digits \cup {"."}
    /\ Cardinality({i \in 1..Len(s) : s[i] = "."}) <= 1
    /\ \E i \in 1..Len(s) : s[i] \in Digits

DecimalValue(s) ==
    LET dots == {i \in 1..Len(s) : s[i] = "."}
        dot  == IF dots = {} THEN Len(s) + 1 ELSE CHOOSE i \in dots : TRUE
        whole == SubSeq(s, 1, dot - 1)
        frac == SubSeq(s, dot + 1, Len(s))
    IN  Rat(DigitsValue(whole) * Pow10(Len(frac)) + DigitsValue(frac),
            Pow10(Len(frac)))

\* StringToNumber: the text is trimmed; the empty text is 0; a signed
\* "Infinity" or decimal literal is its value; anything else is NaN.
StringToNumber(s) ==
    LET t == TrimEnd(TrimStart(s))
        signed == t # <<>> /\ Head(t) \in {"+", "-"}
        sgn == IF t # <<>> /\ Head(t) = "-" THEN -1 ELSE 1
        body == IF signed THEN Tail(t) ELSE t
    IN  IF t = <<>> THEN Num(0)
        ELSE IF body = InfinityText THEN Inf(sgn)
        ELSE IF IsDecimalText(body)
             THEN JsMul(Num(sgn), DecimalValue(body))
        ELSE NaN

\* The decimal text of a natural number, and of an integer.
RECURSIVE NatToString(_)
NatToString(n) ==
    IF n < 10 THEN <<DigitChar(n)>>
    ELSE Append(NatToString(n \div 10), DigitChar(n % 10))

IntToString(n) == IF n < 0 THEN <<"-">> \o NatToString(-n) ELSE NatToString(n)

\* ToString of a primitive value that is an element of an array.
ElementToString(v) ==
    CASE v.k \in {"undefined", "null"} -> <<>>
      [] v.k = "boolean" ->
            IF v.b THEN <<"t", "r", "u", "e">> ELSE <<"f", "a", "l", "s", "e">>
      [] v.k = "number" ->
            IF IsNaN(v.num) THEN <<"N", "a", "N">>
            ELSE IF v.num.t = "inf"
                 THEN (IF v.num.n < 0 THEN <<"-">> ELSE <<>>) \o InfinityText
            ELSE IntToString(v.num.n)
      [] v.k = "string" -> v.s

\* Array.prototype.join(",")
RECURSIVE Join(_)
Join(elems) ==
    IF elems = <<>> THEN <<>>
    ELSE IF Len(elems) = 1 THEN ElementToString(elems[1])
    ELSE ElementToString(elems[1]) \o <<",">> \o Join(Tail(elems))

ObjectText == <<"[", "o", "b", "j", "e", "c", "t", " ",
                "O", "b", "j", "e", "c", "t", "]">>

\* The outcome of a call that returns a number or throws.
Returns(x) == [threw |-> FALSE, num |-> x]

Throws == [threw |-> TRUE, num |-> NaN]

\* Booleans read the way parseFloat reads them.
BooleanToNumber_asParseFloat(b) == NaN

\* ToNumber of a boolean.
BooleanToNumber(b) == IF b THEN Num(1) ELSE Num(0)

\* Number(value): ToNumeric of the value, a BigInt converted to a number.
\* A Symbol and an object without a primitive value raise a TypeError.
JsNumber(value) ==
    CASE value.k = "undefined" -> Returns(NaN)
      [] value.k = "null" -> Returns(Num(0))
      [] value.k = "boolean" -> Returns(BooleanToNumber(value.b))
      [] value.k = "number" -> Returns(value.num)
      [] value.k = "string" -> Returns(StringToNumber(value.s))
      [] value.k = "bigint" -> Returns(Num(value.n))
      [] value.k = "array" -> Returns(StringToNumber(Join(value.elems)))
      [] value.k = "object" ->
            IF value.primitive THEN Returns(StringToNumber(ObjectText))
            ELSE Throws
      [] value.k = "symbol" -> Throws

\* toNumber without the Number.isFinite test.
toNumber_noFiniteTest(value) == JsNumber(value)

toNumber(value) ==
    LET parsed == JsNumber(value)
    IN  IF parsed.threw THEN Throws
        ELSE Returns(IF IsFinite(parsed.num) THEN parsed.num ELSE Num(0))

(***************************************************************************)
(* String(value), as far as getBucketLabel applies it.                     *)
(***************************************************************************)
\* The digits after the decimal point of n / d, written for the fractions
\* whose expansion ends (d divides a power of 10).
RECURSIVE FractionDigits(_, _)
FractionDigits(n, d) ==
    IF n = 0 THEN <<>>
    ELSE <<DigitChar((10 * n) \div d)>> \o FractionDigits((10 * n) % d, d)

\* Number::toString of NaN, an infinity, an integer or a fraction whose
\* decimal expansion ends.
NumberToString(x) ==
    IF IsNaN(x) THEN <<"N", "a", "N">>
    ELSE IF x.t = "inf"
         THEN (IF x.n < 0 THEN <<"-">> ELSE <<>>) \o InfinityText
    ELSE IF x.d = 1 THEN IntToString(x.n)
    ELSE (IF x.n < 0 THEN <<"-">> ELSE <<>>)
            \o NatToString(Abs(x.n) \div x.d) \o <<".">>
            \o FractionDigits(Abs(x.n) % x.d, x.d)

\* The outcome of a call that returns a text or throws.
ReturnsText(s) == [threw |-> FALSE, s |-> s]

ThrowsText == [threw |-> TRUE, s |-> <<>>]

\* String(value): ToString of the value, a Symbol given its descriptive
\* text.  An object without a primitive value raises a TypeError.
JsString(value) ==
    CASE value.k = "undefined" ->
            ReturnsText(<<"u", "n", "d", "e", "f", "i", "n", "e", "d">>)
      [] value.k = "null" -> ReturnsText(<<"n", "u", "l", "l">>)
      [] value.k = "boolean" -> ReturnsText(ElementToString(value))
      [] value.k = "number" -> ReturnsText(NumberToString(value.num))
      [] value.k = "string" -> ReturnsText(value.s)
      [] value.k = "bigint" -> ReturnsText(IntToString(value.n))
      [] value.k = "array" -> ReturnsText(Join(value.elems))
      [] value.k = "object" ->
            IF value.primitive THEN ReturnsText(ObjectText) ELSE ThrowsText
      [] value.k = "symbol" ->
            ReturnsText(<<"S", "y", "m", "b", "o", "l", "(", ")">>)

(***************************************************************************)
(* The values Number(value) is applied to.                                 *)
(***************************************************************************)
Alphabet == {"1", "0", "-", ".", " ", "N"}

RECURSIVE SeqsUpTo(_, _)
SeqsUpTo(S, n) ==
    IF n = 0 THEN {<<>>}
    ELSE LET shorter == SeqsUpTo(S, n - 1)
         IN  shorter \cup {Append(s, c) : s \in shorter, c \in S}

Texts ==
    SeqsUpTo(Alphabet, MaxStrLen)
      \cup {<<"N", "/", "A">>, InfinityText, <<"-">> \o InfinityText,
            <<"+", "7">>, <<" ", "4", "2", " ">>, <<"1", "2", "a">>}

Numbers ==
    {Num(n) : n \in -MaxInt..MaxInt}
      \cup {Rat(1, 2), Rat(-5, 2), NaN, PosInf, NegInf}

Arrays ==
    {Arr(<<>>), Arr(<<NumberVal(Num(5))>>),
     Arr(<<NumberVal(Num(1)), NumberVal(Num(2))>>),
     Arr(<<Str(<<"N", "/", "A">>)>>), Arr(<<Undefined>>), Arr(<<Null>>),
     Arr(<<Bool(TRUE)>>), Arr(<<NumberVal(NaN)>>)}

JsValues ==
    {Undefined, Null, Bool(TRUE), Bool(FALSE), Symbol, PlainObject,
     NoPrimitiveObject}
      \cup {NumberVal(x) : x \in Numbers}
      \cup {Str(s) : s \in Texts}
      \cup {BigInt(n) : n \in {0, 7}}
      \cup Arrays

None == [none |-> TRUE]

(***************************************************************************)
(* The canvas.                                                             *)
(***************************************************************************)
CHART_WIDTH == 960

CHART_HEIGHT == 320

CHART_PADDING == [top |-> 20, right |-> 20, bottom |-> 52, left |-> 56]

X_LABEL_LIMIT == 6

(***************************************************************************)
(* The coordinate mapper.                                                  *)
(***************************************************************************)
\* chartY without the subtraction from the baseline: Y grows with the value.
chartY_fromTop(value, maxValue) ==
    LET usableHeight == CHART_HEIGHT - CHART_PADDING.top - CHART_PADDING.bottom
    IN  IF JsLe(maxValue, Num(0))
        THEN Num(CHART_HEIGHT - CHART_PADDING.bottom)
        ELSE JsAdd(Num(CHART_PADDING.top),
                   JsMul(JsDiv(value, maxValue), Num(usableHeight)))

\* chartY without the test for a domain that is not positive.
chartY_noGuard(value, maxValue) ==
    LET usableHeight == CHART_HEIGHT - CHART_PADDING.top - CHART_PADDING.bottom
    IN  JsSub(Num(CHART_HEIGHT - CHART_PADDING.bottom),
              JsMul(JsDiv(value, maxValue), Num(usableHeight)))

chartY(value, maxValue) ==
    LET usableHeight == CHART_HEIGHT - CHART_PADDING.top - CHART_PADDING.bottom
    IN  IF JsLe(maxValue, Num(0))
        THEN Num(CHART_HEIGHT - CHART_PADDING.bottom)
        ELSE JsSub(Num(CHART_HEIGHT - CHART_PADDING.bottom),
                   JsMul(JsDiv(value, maxValue), Num(usableHeight)))

\* chartX dividing by total instead of total - 1.
chartX_byTotal(index, total) ==
    IF total <= 1 THEN Num(CHART_PADDING.left)
    ELSE LET usableWidth ==
                 CHART_WIDTH - CHART_PADDING.left - CHART_PADDING.right
         IN  JsAdd(Num(CHART_PADDING.left),
                   JsMul(JsDiv(Num(index), Num(total)), Num(usableWidth)))

\* chartX counting the points from 1.
chartX_fromOne(index, total) ==
    IF total <= 1 THEN Num(CHART_PADDING.left)
    ELSE LET usableWidth ==
                 CHART_WIDTH - CHART_PADDING.left - CHART_PADDING.right
         IN  JsAdd(Num(CHART_PADDING.left),
                   JsMul(JsDiv(Num(index + 1), Num(total - 1)),
                         Num(usableWidth)))

\* chartX without the test for a total of at most 1.
chartX_noGuard(index, total) ==
    LET usableWidth == CHART_WIDTH - CHART_PADDING.left - CHART_PADDING.right
    IN  JsAdd(Num(CHART_PADDING.left),
              JsMul(JsDiv(Num(index), Num(total - 1)), Num(usableWidth)))

chartX(index, total) ==
    IF total <= 1 THEN Num(CHART_PADDING.left)
    ELSE LET usableWidth ==
                 CHART_WIDTH - CHART_PADDING.left - CHART_PADDING.right
         IN  JsAdd(Num(CHART_PADDING.left),
                   JsMul(JsDiv(Num(index), Num(total - 1)), Num(usableWidth)))

(***************************************************************************)
(* The tick labels.                                                        *)
(***************************************************************************)
\* row[key]: undefined when the row has no such field.
Field(row, key) == IF key \in DOMAIN row THEN row[key] ELSE Undefined

\* a ?? b
Coalesce(a, b) == IF a.k \in {"undefined", "null"} THEN b ELSE a

\* getBucketLabel with bucket_start read before label.
getBucketLabel_bucketStartFirst(row, index) ==
    LET raw == JsString(Coalesce(Field(row, "bucket_start"),
                                 Coalesce(Field(row, "label"),
                                          NumberVal(Num(index + 1)))))
    IN  IF raw.threw THEN ThrowsText
        ELSE ReturnsText(IF Len(raw.s) > 10
                         THEN SubSeq(raw.s, 1, 10) \o <<".", ".", ".">>
                         ELSE raw.s)

\* getBucketLabel cutting every text of 10 characters or more.
getBucketLabel_cutAtTen(row, index) ==
    LET raw == JsString(Coalesce(Field(row, "label"),
                                 Coalesce(Field(row, "bucket_start"),
                                          NumberVal(Num(index + 1)))))
    IN  IF raw.threw THEN ThrowsText
        ELSE ReturnsText(IF Len(raw.s) >= 10
                         THEN SubSeq(raw.s, 1, 10) \o <<".", ".", ".">>
                         ELSE raw.s)

\* const raw = String(row.label ?? row.bucket_start ?? index + 1);
\* return raw.length > 10 ? `${raw.slice(0, 10)}...` : raw;
getBucketLabel(row, index) ==
    LET raw == JsString(Coalesce(Field(row, "label"),
                                 Coalesce(Field(row, "bucket_start"),
                                          NumberVal(Num(index + 1)))))
    IN  IF raw.threw THEN ThrowsText
        ELSE ReturnsText(IF Len(raw.s) > 10
                         THEN SubSeq(raw.s, 1, 10) \o <<".", ".", ".">>
                         ELSE raw.s)

(***************************************************************************)
(* The axis tick selector.                                                 *)
(***************************************************************************)
\* shouldRenderTick without the forced last index.
shouldRenderTick_strideOnly(index, total) ==
    IF total <= X_LABEL_LIMIT THEN TRUE
    ELSE LET step == CeilDiv(total, X_LABEL_LIMIT)
         IN  index % step = 0

\* shouldRenderTick with the stride rounded down.
shouldRenderTick_floorStride(index, total) ==
    IF total <= X_LABEL_LIMIT THEN TRUE
    ELSE LET step == total \div X_LABEL_LIMIT
         IN  index % step = 0 \/ index = total - 1

shouldRenderTick(index, total) ==
    IF total <= X_LABEL_LIMIT THEN TRUE
    ELSE LET step == CeilDiv(total, X_LABEL_LIMIT)
         IN  index % step = 0 \/ index = total - 1

\* The value gridlines without the one at 0: yTickCount of them.
yTicks_noZeroLine(maxValue) ==
    LET yTickCount == 4
        yTickValues ==
            [i \in 1..yTickCount |->
                JsDiv(JsMul(maxValue, Num(yTickCount - (i - 1))),
                      Num(yTickCount))]
    IN  [i \in 1..yTickCount |->
            [value |-> yTickValues[i],
             y |-> chartY(yTickValues[i], maxValue),
             label |-> MathRound(yTickValues[i])]]

\* The value gridlines of renderAxes, top first.
yTicks(maxValue) ==
    LET yTickCount == 4
        yTickValues ==
            [i \in 1..(yTickCount + 1) |->
                JsDiv(JsMul(maxValue, Num(yTickCount - (i - 1))),
                      Num(yTickCount))]
    IN  [i \in 1..(yTickCount + 1) |->
            [value |-> yTickValues[i],
             y |-> chartY(yTickValues[i], maxValue),
             label |-> MathRound(yTickValues[i])]]

\* The index ticks of renderAxes from position `index` on, in dataset
\* order: data.map returns null where shouldRenderTick says no.
RECURSIVE xTicksFrom(_, _)
xTicksFrom(data, index) ==
    IF index >= Len(data) THEN <<>>
    ELSE IF ~shouldRenderTick(index, Len(data))
         THEN xTicksFrom(data, index + 1)
    ELSE <<[index |-> index,
            x |-> chartX(index, Len(data)),
            label |-> getBucketLabel(data[index + 1], index).s]>>
            \o xTicksFrom(data, index + 1)

xTicks(data) == xTicksFrom(data, 0)

\* Whether the label of some tick of renderAxes throws.
AxesThrow(data) ==
    \E index \in 0..(Len(data) - 1) :
        /\ shouldRenderTick(index, Len(data))
        /\ getBucketLabel(data[index + 1], index).threw

\* renderAxes drawing the two axis lines and the index ticks only.
renderAxes_noGridlines(data, maxValue) ==
    LET baseline == CHART_HEIGHT - CHART_PADDING.bottom
        top == CHART_PADDING.top
        left == CHART_PADDING.left
        right == CHART_WIDTH - CHART_PADDING.right
    IN  [baselineLine |-> [x1 |-> left, y1 |-> baseline,
                           x2 |-> right, y2 |-> baseline],
         leftLine |-> [x1 |-> left, y1 |-> top, x2 |-> left, y2 |-> baseline],
         yTicks |-> <<>>,
         xTicks |-> xTicks(data)]

renderAxes(data, maxValue) ==
    LET baseline == CHART_HEIGHT - CHART_PADDING.bottom
        top == CHART_PADDING.top
        left == CHART_PADDING.left
        right == CHART_WIDTH - CHART_PADDING.right
    IN  [baselineLine |-> [x1 |-> left, y1 |-> baseline,
                           x2 |-> right, y2 |-> baseline],
         leftLine |-> [x1 |-> left, y1 |-> top, x2 |-> left, y2 |-> baseline],
         yTicks |-> yTicks(maxValue),
         xTicks |-> xTicks(data)]

(***************************************************************************)
(* Series extraction and the domain calculator.                            *)
(***************************************************************************)
\* A declared child: a series element, another element, or no element.
Element(displayName, dataKey) ==
    [valid |-> TRUE, displayName |-> displayName, dataKey |-> dataKey]

Line(dataKey) == Element("RechartsLine", dataKey)

Area(dataKey) == Element("RechartsArea", dataKey)

Bar(dataKey) == Element("RechartsBar", dataKey)

\* XAxis, YAxis, Tooltip, Legend and CartesianGrid set no displayName.
XAxis == Element("", "")

\* A child that is no element: a text, a number, null.
TextChild == [valid |-> FALSE, displayName |-> "", dataKey |-> ""]

\* extractSeries putting each match in front of the earlier ones.
RECURSIVE extractSeries_unshift(_, _)
extractSeries_unshift(children, typeName) ==
    IF children = <<>> THEN <<>>
    ELSE LET child == Head(children)
             rest == extractSeries_unshift(Tail(children), typeName)
         IN  IF ~child.valid THEN rest
             ELSE IF child.displayName = typeName
                  THEN rest \o <<[dataKey |-> child.dataKey]>>
             ELSE rest

RECURSIVE extractSeries(_, _)
extractSeries(children, typeName) ==
    IF children = <<>> THEN <<>>
    ELSE LET child == Head(children)
             rest == extractSeries(Tail(children), typeName)
         IN  IF ~child.valid THEN rest
             ELSE IF child.displayName = typeName
                  THEN <<[dataKey |-> child.dataKey]>> \o rest
             ELSE rest

\* data.flatMap((row) => series.map((s) => toNumber(row[s.dataKey]))),
\* each entry the outcome of its toNumber call.
RECURSIVE CellOutcomes(_, _)
CellOutcomes(data, series) ==
    IF data = <<>> THEN <<>>
    ELSE [j \in 1..Len(series) |-> toNumber(Head(data)[series[j].dataKey])]
            \o CellOutcomes(Tail(data), series)

\* The values of the first series only.
CellValues_firstSeries(data, series) ==
    IF series = <<>> THEN <<>>
    ELSE [i \in 1..Len(data) |-> toNumber(data[i][series[1].dataKey]).num]

CellValues(data, series) ==
    LET outcomes == CellOutcomes(data, series)
    IN  [i \in 1..Len(outcomes) |-> outcomes[i].num]

\* Math.max(...values) with no floor of 1.
maxValue_noFloor(data, series) ==
    LET values == CellValues(data, series)
    IN  IF values = <<>> THEN NegInf ELSE MathMax(Head(values), Tail(values))

\* const maxValue = Math.max(1, ...data.flatMap(...))
maxValue(data, series) == MathMax(Num(1), CellValues(data, series))

\* Whether some toNumber call of the render, or some tick label, throws.
RenderThrows(data, series) ==
    \/ \E i \in 1..Len(data), j \in 1..Len(series) :
           toNumber(data[i][series[j].dataKey]).threw
    \/ AxesThrow(data)

(***************************************************************************)
(* The renderers.                                                          *)
(***************************************************************************)
\* linePoints taking the rows last to first.
linePoints_reversed(data, dataKey, domain) ==
    [i \in 1..Len(data) |->
        [x |-> chartX(i - 1, Len(data)),
         y |-> chartY(toNumber(data[Len(data) + 1 - i][dataKey]).num,
                      domain)]]

linePoints(data, dataKey, domain) ==
    [i \in 1..Len(data) |->
        [x |-> chartX(i - 1, Len(data)),
         y |-> chartY(toNumber(data[i][dataKey]).num, domain)]]

LineChart(data, children) ==
    LET lines == extractSeries(children, "RechartsLine")
        domain == maxValue(data, lines)
    IN  [series |-> lines,
         maxValue |-> domain,
         axes |-> renderAxes(data, domain),
         shapes |->
            [j \in 1..Len(lines) |->
                [polyline |-> linePoints(data, lines[j].dataKey, domain),
                 circles |->
                    [i \in 1..Len(data) |->
                        [cx |-> chartX(i - 1, Len(data)),
                         cy |-> chartY(toNumber(data[i][lines[j].dataKey]).num,
                                       domain)]]]]]

\* AreaChart closing the polygon at the left edge instead of under the
\* last point.
AreaChart_closedAtFirstX(data, children) ==
    LET areas == extractSeries(children, "RechartsArea")
        domain == maxValue(data, areas)
        baseline == Num(CHART_HEIGHT - CHART_PADDING.bottom)
        firstX == chartX(0, Len(data))
    IN  [series |-> areas,
         maxValue |-> domain,
         axes |-> renderAxes(data, domain),
         shapes |->
            [j \in 1..Len(areas) |->
                LET points == linePoints(data, areas[j].dataKey, domain)
                IN  [polygon |-> <<[x |-> firstX, y |-> baseline]>> \o points
                                    \o <<[x |-> firstX, y |-> baseline]>>,
                     polyline |-> points]]]

AreaChart(data, children) ==
    LET areas == extractSeries(children, "RechartsArea")
        domain == maxValue(data, areas)
        baseline == Num(CHART_HEIGHT - CHART_PADDING.bottom)
        firstX == chartX(0, Len(data))
        lastX == chartX(IF Len(data) - 1 > 0 THEN Len(data) - 1 ELSE 0,
                        Len(data))
    IN  [series |-> areas,
         maxValue |-> domain,
         axes |-> renderAxes(data, domain),
         shapes |->
            [j \in 1..Len(areas) |->
                LET points == linePoints(data, areas[j].dataKey, domain)
                IN  [polygon |-> <<[x |-> firstX, y |-> baseline]>> \o points
                                    \o <<[x |-> lastX, y |-> baseline]>>,
                     polyline |-> points]]]

\* CHART_PADDING is an object: in an arithmetic expression it is converted
\* with ToNumber, as Number(CHART_PADDING) converts it.
CHART_PADDING_asNumber == JsNumber(PlainObject).num

\* The bars of one data point, one per series.
BarGroup(row, dataIndex, bars, domain, groupWidth, barWidth) ==
    [barIndex \in 1..Len(bars) |->
        LET value == toNumber(row[bars[barIndex].dataKey]).num
            height ==
                IF JsLt(Num(0), domain)
                THEN JsDiv(JsMul(JsSub(Num(CHART_HEIGHT),
                                       JsMul(CHART_PADDING_asNumber, Num(2))),
                                 value),
                           domain)
                ELSE Num(0)
            x == JsAdd(JsAdd(JsAdd(Num(CHART_PADDING.left),
                                   JsMul(Num(dataIndex), groupWidth)),
                             JsMul(Num(barIndex - 1), JsAdd(barWidth, Num(4)))),
                       Num(2))
            y == JsSub(Num(CHART_HEIGHT - CHART_PADDING.bottom), height)
        IN  [dataIndex |-> dataIndex,
             barIndex |-> barIndex - 1,
             value |-> value,
             x |-> x,
             y |-> y,
             width |-> barWidth,
             height |-> JsMax2(height, Num(0)),
             hasLabel |-> JsLt(Num(0), value),
             labelY |-> JsMax2(JsSub(y, Num(8)), Num(CHART_PADDING.top + 12)),
             label |-> MathRound(value)]]

RECURSIVE BarGroups(_, _, _, _, _, _)
BarGroups(data, dataIndex, bars, domain, groupWidth, barWidth) ==
    IF data = <<>> THEN <<>>
    ELSE BarGroup(Head(data), dataIndex, bars, domain, groupWidth, barWidth)
            \o BarGroups(Tail(data), dataIndex + 1, bars, domain,
                         groupWidth, barWidth)

\* const groupWidth = data.length > 0 ? usableWidth / data.length : usableWidth
groupWidth(dataLength) ==
    LET usableWidth == CHART_WIDTH - CHART_PADDING.left - CHART_PADDING.right
    IN  IF dataLength > 0
        THEN JsDiv(Num(usableWidth), Num(dataLength))
        ELSE Num(usableWidth)

\* The bar width without the floor of 8.
barWidth_noFloor(dataLength, barsLength) ==
    IF barsLength > 0
    THEN JsDiv(groupWidth(dataLength), Num(barsLength + 1))
    ELSE Num(12)

\* const barWidth = bars.length > 0
\*     ? Math.max(groupWidth / (bars.length + 1), 8) : 12
barWidth(dataLength, barsLength) ==
    IF barsLength > 0
    THEN JsMax2(JsDiv(groupWidth(dataLength), Num(barsLength + 1)), Num(8))
    ELSE Num(12)

BarChart(data, children) ==
    LET bars == extractSeries(children, "RechartsBar")
        domain == maxValue(data, bars)
    IN  [series |-> bars,
         maxValue |-> domain,
         axes |-> renderAxes(data, domain),
         shapes |-> BarGroups(data, 0, bars, domain, groupWidth(Len(data)),
                              barWidth(Len(data), Len(bars)))]

(***************************************************************************)
(* Numeric coercion: toNumber applied to one value.                        *)
(***************************************************************************)
InitToNumber ==
    /\ pc = "call"
    /\ input \in {[value |-> v] : v \in JsValues}
    /\ output = None
    /\ TerminalInit

ToNumberReturn ==
    /\ pc = "call"
    /\ ~toNumber(input.value).threw
    /\ pc' = "returned"
    /\ output' = toNumber(input.value).num
    /\ UNCHANGED input
    /\ UNCHANGED terminalVars

ToNumberThrow ==
    /\ pc = "call"
    /\ toNumber(input.value).threw
    /\ pc' = "threw"
    /\ UNCHANGED <<input, output>>
    /\ UNCHANGED terminalVars

NextToNumber == ToNumberReturn \/ ToNumberThrow

SpecToNumber == InitToNumber /\ [][NextToNumber]_vars

NA == Str(<<"N", "/", "A">>)

\* C3: whenever toNumber returns, what it returns is a finite number: the
\* numeric conversion of the value when that conversion is finite, and 0
\* when it is NaN, +Infinity or -Infinity (undefined, "N/A", ...).
C3_ToNumberFiniteOrZero ==
    pc = "returned" =>
        /\ IsFinite(output)
        /\ LET conversion == JsNumber(input.value).num
           IN  output = IF conversion \in {NaN, PosInf, NegInf}
                        THEN Num(0) ELSE conversion
        /\ input.value \in {Undefined, NA, NumberVal(NaN), NumberVal(PosInf),
                             NumberVal(NegInf)} => output = Num(0)
        /\ input.value = Str(<<" ", "4", "2", " ">>) => output = Num(42)
        /\ input.value = NumberVal(Rat(-5, 2)) => output = Rat(-5, 2)

C3_Witness ==
    /\ pc = "returned"
    /\ input.value = NA
    /\ output = Num(0)

\* C4: toNumber raises no error for any input value: no call of it ends
\* in a throw.
C4_ToNumberNeverThrows == pc # "threw"

\* A text that spells a finite number.
SpellsFiniteNumber(s) ==
    LET t == TrimEnd(TrimStart(s))
        body == IF t # <<>> /\ Head(t) \in {"+", "-"} THEN Tail(t) ELSE t
    IN  IsDecimalText(body)

\* A field value that is neither a finite number nor a text spelling one.
NonNumeric(v) ==
    CASE v.k = "number" -> ~IsFinite(v.num)
      [] v.k = "string" -> ~SpellsFiniteNumber(v.s)
      [] OTHER -> TRUE

\* C5 as stated: every non-finite or non-numeric field value (booleans,
\* null, undefined, arrays, objects, non-numeric strings, NaN, Infinity)
\* that toNumber returns a number for is coerced to 0.
C5_NonNumericBecomesZero ==
    pc = "returned" /\ NonNumeric(input.value) => output = Num(0)

\* C5 as amended: a field value whose numeric conversion is not finite
\* (undefined, NaN, +-Infinity, a text spelling no finite number, a plain
\* object, an array of two or more elements) is coerced to 0; null, false,
\* the blank text and the empty array give 0 as well; but true gives 1,
\* and a bigint or a one-element array gives the number its text spells.
C5_NonFiniteConversionBecomesZero ==
    pc = "returned" =>
        LET v == input.value
        IN  /\ v.k \in {"undefined", "null"} => output = Num(0)
            /\ v.k = "number" /\ ~IsFinite(v.num) => output = Num(0)
            /\ v.k = "string" /\ ~SpellsFiniteNumber(v.s) => output = Num(0)
            /\ v.k = "object" => output = Num(0)
            /\ v.k = "array" /\ Len(v.elems) # 1 => output = Num(0)
            /\ v = Bool(FALSE) => output = Num(0)
            /\ v = Bool(TRUE) => output = Num(1)
            /\ v.k = "bigint" => output = Num(v.n)
            /\ v = Arr(<<NumberVal(Num(5))>>) => output = Num(5)
            /\ v \in {Arr(<<NA>>), Arr(<<Bool(TRUE)>>)} => output = Num(0)

C5_Witness ==
    /\ pc = "returned"
    /\ input.value = Bool(TRUE)
    /\ output = Num(1)

(***************************************************************************)
(* The coordinate mapper: chartX and chartY applied to one point.  The     *)
(* renderers call them with finite numbers only: toNumber's results, the   *)
(* gridline values and the floored domain.                                 *)
(***************************************************************************)
MapperValues ==
    {Num(v) : v \in -MaxMagnitude..MaxMagnitude} \cup {Rat(1, 2), Rat(5, 2)}

MapperDomains == {Num(m) : m \in -1..MaxDomain} \cup {Rat(5, 2)}

ChartXInputs ==
    {[fn |-> "chartX", index |-> i, total |-> n] :
        i \in 0..MaxTotal, n \in 0..MaxTotal}

ChartYInputs ==
    {[fn |-> "chartY", value |-> v, maxValue |-> m] :
        v \in MapperValues, m \in MapperDomains}

\* chartY with a domain that is not positive, the value finite or not.
ChartYDegenerateInputs ==
    {[fn |-> "chartY", value |-> v, maxValue |-> m] :
        v \in MapperValues \cup {NaN, PosInf, NegInf},
        m \in {Num(0), Num(-1), Rat(-5, 2), NegInf}}

InitMapper ==
    /\ pc = "call"
    /\ input \in {c \in ChartXInputs : c.index < c.total \/ c.total <= 1}
                    \cup ChartYInputs \cup ChartYDegenerateInputs
    /\ output = None
    /\ TerminalInit

ChartXCall ==
    /\ pc = "call"
    /\ input.fn = "chartX"
    /\ pc' = "returned"
    /\ output' = chartX(input.index, input.total)
    /\ UNCHANGED input
    /\ UNCHANGED terminalVars

ChartYCall ==
    /\ pc = "call"
    /\ input.fn = "chartY"
    /\ pc' = "returned"
    /\ output' = chartY(input.value, input.maxValue)
    /\ UNCHANGED input
    /\ UNCHANGED terminalVars

NextMapper == ChartXCall \/ ChartYCall

SpecMapper == InitMapper /\ [][NextMapper]_vars

(***************************************************************************)
(* The axes: renderAxes applied to a dataset of a given length and a       *)
(* domain.                                                                 *)
(***************************************************************************)
EmptyRow == [a |-> Undefined, b |-> Undefined]

\* The domains renderAxes is given: the renderers pass a finite number that
\* is at least 1, whole or not.
AxesDomains ==
    {Num(m) : m \in 1..MaxDomain} \cup {Rat(2 * m + 1, 2) : m \in 1..MaxDomain}

\* The first k characters of a bucket's timestamp, repeated as needed.
Timestamp ==
    <<"2", "0", "2", "4", "-", "0", "1", "-", "1", "5", "T", "1", "0", ":",
      "3", "0">>

LabelText(k) == [i \in 1..k |-> Timestamp[((i - 1) % Len(Timestamp)) + 1]]

\* What a row holds as its label or its bucket_start: nothing, null, a text
\* around the limit of 10 characters, the empty text, a number, a boolean,
\* an object.
LabelValues ==
    {Undefined, Null, Bool(FALSE), NumberVal(Num(0)), NumberVal(Num(12)),
     NumberVal(Rat(-5, 2)), PlainObject, NoPrimitiveObject}
      \cup {Str(LabelText(k)) : k \in {0} \cup (MaxLabelLen - 3)..MaxLabelLen}

LabelledRows ==
    {[a |-> Undefined, b |-> Undefined, label |-> l, bucket_start |-> s] :
        l \in LabelValues, s \in LabelValues}

InitAxes ==
    /\ pc = "call"
    /\ input \in {[data |-> [i \in 1..n |-> EmptyRow], maxValue |-> m] :
                    n \in 0..MaxTotal, m \in AxesDomains}
                 \cup {[data |-> [i \in 1..n |-> row], maxValue |-> Num(1)] :
                    n \in 1..MaxRows, row \in LabelledRows}
    /\ output = None
    /\ TerminalInit

RenderAxesCall ==
    /\ pc = "call"
    /\ ~AxesThrow(input.data)
    /\ pc' = "returned"
    /\ output' = renderAxes(input.data, input.maxValue)
    /\ UNCHANGED input
    /\ UNCHANGED terminalVars

RenderAxesThrow ==
    /\ pc = "call"
    /\ AxesThrow(input.data)
    /\ pc' = "threw"
    /\ UNCHANGED <<input, output>>
    /\ UNCHANGED terminalVars

NextAxes == RenderAxesCall \/ RenderAxesThrow

SpecAxes == InitAxes /\ [][NextAxes]_vars

(***************************************************************************)
(* The renderers: LineChart, AreaChart and BarChart applied to a dataset   *)
(* and declared children.                                                  *)
(***************************************************************************)
\* A field is missing, holds a number below the floor of the domain, above
\* it or below zero, or holds an object Number() cannot convert.
Cells ==
    {Undefined, NumberVal(Rat(1, 2)), NumberVal(Num(3)), NumberVal(Num(-2)),
     NoPrimitiveObject}

Rows == [a : Cells, b : Cells]

\* A row with a label: a text longer than the tick labels' limit, or an
\* object String() cannot convert.
LabelledRow(label) ==
    [a |-> NumberVal(Num(3)), b |-> Undefined, label |-> label]

Datasets ==
    SeqsUpTo(Rows, MaxRows)
      \cup {<<LabelledRow(Str(LabelText(MaxLabelLen)))>>,
            <<LabelledRow(NoPrimitiveObject)>>}

ChildLists ==
    {<<>>,
     <<Line("a")>>,
     <<Line("a"), XAxis, Line("b")>>,
     <<Area("b"), Area("a")>>,
     <<Bar("a")>>,
     <<Bar("b"), TextChild, Bar("a")>>,
     <<XAxis, Line("b"), Bar("a"), TextChild, Area("a")>>}

Init ==
    /\ pc = "call"
    /\ input \in [kind : {"line", "area", "bar"},
                  data : Datasets,
                  children : ChildLists]
    /\ output = None
    /\ TerminalInit

LineChartRender ==
    /\ pc = "call"
    /\ input.kind = "line"
    /\ \/ /\ RenderThrows(input.data,
                          extractSeries(input.children, "RechartsLine"))
          /\ pc' = "threw"
          /\ UNCHANGED <<input, output>>
       \/ /\ ~RenderThrows(input.data,
                           extractSeries(input.children, "RechartsLine"))
          /\ pc' = "rendered"
          /\ output' = LineChart(input.data, input.children)
          /\ UNCHANGED input
    /\ UNCHANGED terminalVars

AreaChartRender ==
    /\ pc = "call"
    /\ input.kind = "area"
    /\ \/ /\ RenderThrows(input.data,
                          extractSeries(input.children, "RechartsArea"))
          /\ pc' = "threw"
          /\ UNCHANGED <<input, output>>
       \/ /\ ~RenderThrows(input.data,
                           extractSeries(input.children, "RechartsArea"))
          /\ pc' = "rendered"
          /\ output' = AreaChart(input.data, input.children)
          /\ UNCHANGED input
    /\ UNCHANGED terminalVars

BarChartRender ==
    /\ pc = "call"
    /\ input.kind = "bar"
    /\ \/ /\ RenderThrows(input.data,
                          extractSeries(input.children, "RechartsBar"))
          /\ pc' = "threw"
          /\ UNCHANGED <<input, output>>
       \/ /\ ~RenderThrows(input.data,
                           extractSeries(input.children, "RechartsBar"))
          /\ pc' = "rendered"
          /\ output' = BarChart(input.data, input.children)
          /\ UNCHANGED input
    /\ UNCHANGED terminalVars

Next == LineChartRender \/ AreaChartRender \/ BarChartRender

Spec == Init /\ [][Next]_vars

(***************************************************************************)
(* The bar layout: BarChart applied to datasets of every length, all rows  *)
(* alike, and to one, two or three bar series.                             *)
(***************************************************************************)
BarRows ==
    {[a |-> NumberVal(Num(3)), b |-> NumberVal(Num(1))],
     [a |-> NumberVal(Num(0)), b |-> NumberVal(Num(-2))],
     [a |-> NoPrimitiveObject, b |-> NumberVal(Num(1))]}

BarChildLists ==
    {<<XAxis>>,
     <<Bar("b")>>,
     <<Bar("a"), Bar("b")>>,
     <<Bar("b"), XAxis, Bar("a"), Bar("b")>>}

InitBars ==
    /\ pc = "call"
    /\ input \in {[kind |-> "bar", data |-> [i \in 1..n |-> row],
                   children |-> c] :
                    n \in 0..MaxTotal, row \in BarRows, c \in BarChildLists}
    /\ output = None
    /\ TerminalInit

NextBars == BarChartRender

SpecBars == InitBars /\ [][NextBars]_vars

(***************************************************************************)
(* Series extraction: extractSeries applied to declared children.          *)
(***************************************************************************)
ChildKinds ==
    {Line("a"), Line("b"), Area("a"), Bar("a"), Bar("b"), XAxis, TextChild}

TypeNames == {"RechartsLine", "RechartsArea", "RechartsBar"}

InitExtract ==
    /\ pc = "call"
    /\ input \in [children : SeqsUpTo(ChildKinds, MaxChildren),
                  typeName : TypeNames]
    /\ output = None
    /\ TerminalInit

ExtractSeriesCall ==
    /\ pc = "call"
    /\ pc' = "returned"
    /\ output' = extractSeries(input.children, input.typeName)
    /\ UNCHANGED input
    /\ UNCHANGED terminalVars

NextExtract == ExtractSeriesCall

SpecExtract == InitExtract /\ [][NextExtract]_vars

(***************************************************************************)
(* The domain calculator (C1, C2), under Spec.                             *)
(***************************************************************************)
\* The coerced values of the cross-product of the rows and the series.
CrossProduct(data, series) ==
    {toNumber(data[i][series[j].dataKey]).num :
        i \in 1..Len(data), j \in 1..Len(series)}

\* C1: whatever the dataset and the resolved series, the empty ones
\* included, the domain maximum LineChart, AreaChart and BarChart compute
\* is at least 1.
C1_DomainAtLeastOne ==
    pc = "rendered" => JsLe(Num(1), output.maxValue)

C1_Witness ==
    /\ pc = "rendered"
    /\ input.data = <<[a |-> NumberVal(Rat(1, 2)), b |-> NumberVal(Num(-2))]>>
    /\ Len(output.series) = 2
    /\ output.maxValue = Num(1)

\* C2: the domain maximum is max(1, m), m the greatest coerced value of the
\* full cross-product of rows and resolved series: it is at least 1 and at
\* least every such value, and it is 1 or one of these values; with no row
\* or no series it is exactly 1.
C2_DomainIsFlooredMaximum ==
    pc = "rendered" =>
        LET cells == CrossProduct(input.data, output.series)
            m == output.maxValue
        IN  /\ JsLe(Num(1), m)
            /\ \A c \in cells : JsLe(c, m)
            /\ m = Num(1) \/ m \in cells
            /\ (input.data = <<>> \/ output.series = <<>>) => m = Num(1)

C2_Witness ==
    /\ pc = "rendered"
    /\ Len(input.data) = 2
    /\ Len(output.series) = 2
    /\ output.series[2].dataKey = "b"
    /\ input.data[1] = [a |-> NumberVal(Rat(1, 2)), b |-> Undefined]
    /\ input.data[2] = [a |-> NumberVal(Num(-2)), b |-> NumberVal(Num(3))]
    /\ output.maxValue = Num(3)

(***************************************************************************)
(* The coordinate mapper (C6, C7), under SpecMapper.                       *)
(***************************************************************************)
\* C6: for every total > 1, chartX(0, total) is the left padding 56,
\* chartX(total - 1, total) is the right edge 960 - 20 = 940, and chartX
\* does not decrease from one index to the next.
C6_ChartXMonotoneEdgeToEdge ==
    pc = "returned" /\ input.fn = "chartX" /\ input.total > 1 =>
        /\ input.index = 0 => output = Num(56)
        /\ input.index = input.total - 1 => output = Num(940)
        /\ \A j \in 0..(input.total - 1) :
               input.index <= j => JsLe(output, chartX(j, input.total))
        /\ JsLe(Num(56), output) /\ JsLe(output, Num(940))

C6_Witness ==
    /\ pc = "returned"
    /\ input.fn = "chartX"
    /\ input.total = 5
    /\ input.index = 4
    /\ output = Num(940)

\* C7: for every domainMax > 0, chartY(0, domainMax) is the baseline
\* 320 - 52 = 268, chartY(domainMax, domainMax) is the top 20 of the plot
\* area, and chartY does not increase as the value increases.
C7_ChartYAntitoneBaselineToTop ==
    pc = "returned" /\ input.fn = "chartY" /\ JsLt(Num(0), input.maxValue) =>
        /\ input.value = Num(0) => output = Num(268)
        /\ input.value = input.maxValue => output = Num(20)
        /\ \A w \in MapperValues :
               JsLe(input.value, w) => JsLe(chartY(w, input.maxValue), output)

C7_Witness ==
    /\ pc = "returned"
    /\ input.fn = "chartY"
    /\ input.value = Rat(5, 2)
    /\ input.maxValue = Rat(5, 2)
    /\ output = Num(20)

(***************************************************************************)
(* The horizontal ticks (C8, C9), under SpecAxes.                          *)
(***************************************************************************)
TickIndices == [k \in 1..Len(output.xTicks) |-> output.xTicks[k].index]

\* C8: with the label limit L = 6, a dataset of any length gets at most
\* L + 1 horizontal ticks, and one longer than L gets a tick at its last
\* index.
C8_AtMostLimitPlusOneTicks ==
    pc = "returned" =>
        /\ Len(output.xTicks) <= 6 + 1
        /\ Len(input.data) > 6 =>
               \E k \in 1..Len(output.xTicks) :
                   output.xTicks[k].index = Len(input.data) - 1

C8_Witness ==
    /\ pc = "returned"
    /\ Len(input.data) = 12
    /\ Len(output.xTicks) = 7
    /\ output.xTicks[7].index = 11

\* C9: a dataset of at most L = 6 points gets a tick at every index; a
\* longer one, with stride the least s such that s * L >= total, gets a
\* tick exactly at the multiples of the stride and at the last index, in
\* increasing order; 20 points get ticks at 0, 4, 8, 12, 16 and 19.
C9_StrideRule ==
    pc = "returned" =>
        LET total == Len(input.data)
            stride == CHOOSE st \in 1..(total + 1) :
                          /\ st * 6 >= total
                          /\ \A r \in 1..(st - 1) : r * 6 < total
            expected == IF total <= 6 THEN 0..(total - 1)
                        ELSE {i \in 0..(total - 1) :
                                 i % stride = 0 \/ i = total - 1}
        IN  /\ {TickIndices[k] : k \in 1..Len(TickIndices)} = expected
            /\ \A k \in 1..(Len(TickIndices) - 1) :
                   TickIndices[k] < TickIndices[k + 1]
            /\ total = 20 => TickIndices = <<0, 4, 8, 12, 16, 19>>

C9_Witness ==
    /\ pc = "returned"
    /\ Len(input.data) = 20
    /\ TickIndices = <<0, 4, 8, 12, 16, 19>>

(***************************************************************************)
(* The bars (C10), under Spec.                                             *)
(***************************************************************************)
\* C10: each bar's height is proportional to value / domainMax and measured
\* upward from the baseline: the rect of every row and series has a
\* well-defined height that is not negative, a value of 0 gives height 0,
\* and, stated here for the values that are not negative, the top edge is
\* at the baseline minus the height and the heights of any two bars are in
\* the ratio of their values.
C10_BarHeightProportional ==
    pc = "rendered" /\ input.kind = "bar" =>
        \A k \in 1..Len(output.shapes) :
            LET bar == output.shapes[k]
                baseline == Num(CHART_HEIGHT - CHART_PADDING.bottom)
            IN  /\ IsFinite(bar.height)
                /\ JsLe(Num(0), bar.height)
                /\ bar.value = Num(0) => bar.height = Num(0)
                /\ JsLe(Num(0), bar.value) =>
                       /\ bar.y = JsSub(baseline, bar.height)
                       /\ \A l \in 1..Len(output.shapes) :
                              JsLe(Num(0), output.shapes[l].value) =>
                                  JsMul(bar.height, output.shapes[l].value)
                                    = JsMul(output.shapes[l].height, bar.value)

(***************************************************************************)
(* The bar width (C11), under SpecBars.                                    *)
(***************************************************************************)
\* C11: with at least one resolved series, every bar is as wide as the
\* greater of groupWidth / (seriesCount + 1) and 8, groupWidth being the
\* usable width 960 - 56 - 20 = 884 divided by the number of data points:
\* the width times n * (s + 1) is 884 when that share is at least 8, and
\* the width is 8 otherwise; so no bar is narrower than 8.
C11_BarWidthIsFlooredShare ==
    pc = "rendered" /\ Len(output.series) >= 1 =>
        LET n == Len(input.data)
            s == Len(output.series)
        IN  /\ Len(output.shapes) = n * s
            /\ \A k \in 1..Len(output.shapes) :
                   LET width == output.shapes[k].width
                   IN  /\ JsLe(Num(8), width)
                       /\ IF 884 >= 8 * n * (s + 1)
                          THEN JsMul(width, Num(n * (s + 1))) = Num(884)
                          ELSE width = Num(8)

\* The floor at work: 37 points of 2 series would share 884 / 111 < 8 each.
C11_Witness ==
    /\ pc = "rendered"
    /\ Len(input.data) = 37
    /\ Len(output.series) = 2
    /\ Len(output.shapes) = 74
    /\ output.shapes[74].width = Num(8)

(***************************************************************************)
(* The bar value labels (C12), under Spec.                                 *)
(***************************************************************************)
\* C12: the bar renderer puts a value label on a bar exactly when the
\* bar's coerced value is not 0: every bar whose value is not 0 has one and
\* no bar whose value is 0 has one.
C12_LabelUnlessZero ==
    pc = "rendered" /\ input.kind = "bar" =>
        \A k \in 1..Len(output.shapes) :
            output.shapes[k].hasLabel <=> output.shapes[k].value # Num(0)

(***************************************************************************)
(* The empty dataset (C13), under Spec.                                    *)
(***************************************************************************)
\* C13 as stated: for an empty dataset and any series declarations, each
\* renderer completes without an exception and draws only the baseline and
\* the left axis line: no tick elements and no series shapes are emitted.
C13_EmptyDatasetAxisLinesOnly ==
    input.data = <<>> =>
        /\ pc # "threw"
        /\ pc = "rendered" =>
               /\ output.axes.yTicks = <<>>
               /\ output.axes.xTicks = <<>>
               /\ output.shapes = <<>>

\* C13 as amended: for an empty dataset and any series declarations, each
\* renderer completes without an exception and draws the baseline, the
\* left axis line and the five value gridlines of the domain 1 with their
\* labels 1, 1, 1, 0, 0; it emits no horizontal tick, no marker and no
\* bar.  The line renderer emits a polyline without vertices for each
\* resolved series, and the area renderer a polyline without vertices and
\* a polygon whose only two vertices are on the baseline at the left edge.
C13_EmptyDatasetAxesAndGridlines ==
    input.data = <<>> =>
        /\ pc # "threw"
        /\ pc = "rendered" =>
               /\ output.axes.baselineLine
                    = [x1 |-> 56, y1 |-> 268, x2 |-> 940, y2 |-> 268]
               /\ output.axes.leftLine
                    = [x1 |-> 56, y1 |-> 20, x2 |-> 56, y2 |-> 268]
               /\ output.axes.xTicks = <<>>
               /\ Len(output.axes.yTicks) = 5
               /\ [i \in 1..5 |-> output.axes.yTicks[i].label]
                    = <<Num(1), Num(1), Num(1), Num(0), Num(0)>>
               /\ [i \in 1..5 |-> output.axes.yTicks[i].y]
                    = <<Num(20), Num(82), Num(144), Num(206), Num(268)>>
               /\ Len(output.shapes)
                    = IF input.kind = "bar" THEN 0 ELSE Len(output.series)
               /\ input.kind = "line" =>
                      \A j \in 1..Len(output.shapes) :
                          /\ output.shapes[j].polyline = <<>>
                          /\ output.shapes[j].circles = <<>>
               /\ input.kind = "area" =>
                      \A j \in 1..Len(output.shapes) :
                          /\ output.shapes[j].polyline = <<>>
                          /\ output.shapes[j].polygon
                               = <<[x |-> Num(56), y |-> Num(268)],
                                   [x |-> Num(56), y |-> Num(268)]>>

C13_Witness ==
    /\ pc = "rendered"
    /\ input.data = <<>>
    /\ input.kind = "area"
    /\ Len(output.series) = 2
    /\ Len(output.shapes) = 2
    /\ Len(output.axes.yTicks) = 5

(***************************************************************************)
(* No matching series (C14), under Spec.                                   *)
(***************************************************************************)
\* The displayName a renderer looks for.
KindTag(kind) ==
    CASE kind = "line" -> "RechartsLine"
      [] kind = "area" -> "RechartsArea"
      [] kind = "bar" -> "RechartsBar"

\* C14: when no declared child matches the renderer's category, the
\* renderer raises no error whatever the dataset, and what it renders has
\* an empty series list, the axes, and no series geometry.
C14_NoMatchingSeriesAxesOnly ==
    (\A i \in 1..Len(input.children) :
        ~(/\ input.children[i].valid
          /\ input.children[i].displayName = KindTag(input.kind))) =>
        /\ pc # "threw"
        /\ pc = "rendered" =>
               /\ output.series = <<>>
               /\ output.shapes = <<>>
               /\ Len(output.axes.yTicks) = 5
               /\ Len(output.axes.xTicks) = Len(input.data)

(***************************************************************************)
(* Series extraction (C15), under SpecExtract.                             *)
(***************************************************************************)
\* The positions of the declared children that are elements of the
\* expected type.
MatchingPositions ==
    {i \in 1..Len(input.children) :
        /\ input.children[i].valid
        /\ input.children[i].displayName = input.typeName}

\* C15: extractSeries returns exactly the declared children whose type tag
\* is the expected one, in declaration order: its k-th entry is the props
\* of the k-th matching child, so that no child is left out, duplicated or
\* moved, and a child of another type or one that is no element
\* contributes nothing.
C15_MatchingChildrenInOrder ==
    pc = "returned" =>
        /\ Len(output) = Cardinality(MatchingPositions)
        /\ \A k \in 1..Len(output) :
               LET position ==
                       CHOOSE i \in MatchingPositions :
                           Cardinality({j \in MatchingPositions : j < i})
                             = k - 1
               IN  output[k] = [dataKey |-> input.children[position].dataKey]

C15_Witness ==
    /\ pc = "returned"
    /\ input.typeName = "RechartsBar"
    /\ input.children = <<Bar("b"), TextChild, Bar("a")>>
    /\ output = <<[dataKey |-> "b"], [dataKey |-> "a"]>>

(***************************************************************************)
(* The tick labels (C17, C18), under SpecAxes.                             *)
(***************************************************************************)
\* The row a rendered tick stands for.
TickRow(tick) == input.data[tick.index + 1]

Present(value) == value.k \notin {"undefined", "null"}

\* The field the label of a row is taken from, if any.
LabelSource(row) ==
    IF Present(Field(row, "label")) THEN Field(row, "label")
    ELSE Field(row, "bucket_start")

Ellipsis == <<".", ".", ".">>

\* C17: a tick label longer than 10 characters is rendered as its first 10
\* characters followed by an ellipsis, and one of 10 characters or fewer
\* is rendered unchanged; so a rendered label has at most 13 characters,
\* and one of more than 10 ends with the ellipsis.
C17_LongLabelsAreCut ==
    pc = "returned" =>
        \A k \in 1..Len(output.xTicks) :
            LET tick == output.xTicks[k]
                source == LabelSource(TickRow(tick))
            IN  /\ source.k = "string" /\ Len(source.s) > 10 =>
                       /\ Len(tick.label) = 13
                       /\ SubSeq(tick.label, 1, 10) = SubSeq(source.s, 1, 10)
                       /\ SubSeq(tick.label, 11, 13) = Ellipsis
                /\ source.k = "string" /\ Len(source.s) <= 10 =>
                       tick.label = source.s
                /\ Len(tick.label) <= 13
                /\ Len(tick.label) > 10 =>
                       SubSeq(tick.label, 11, Len(tick.label)) = Ellipsis
                /\ source = Str(<<"2", "0", "2", "4", "-", "0", "1", "-", "1",
                                  "5", "T">>) =>
                       tick.label = <<"2", "0", "2", "4", "-", "0", "1", "-",
                                      "1", "5", ".", ".", ".">>

\* A label of 11 characters loses its last one.
C17_Witness ==
    /\ pc = "returned"
    /\ Len(input.data) = 2
    /\ Field(input.data[2], "label") = Str(LabelText(11))
    /\ output.xTicks[2].label
         = <<"2", "0", "2", "4", "-", "0", "1", "-", "1", "5", ".", ".", ".">>

\* C18: the label of a tick is that of the row's "label" field when the
\* row has one (a value other than undefined and null, the empty text, 0
\* and false included), else that of its "bucket_start" field when it has
\* one, else the 1-based index of the row in decimal: the rendered text
\* starts with the first 10 characters of the text of that value.
C18_LabelPrecedence ==
    pc = "returned" =>
        \A k \in 1..Len(output.xTicks) :
            LET tick == output.xTicks[k]
                row == TickRow(tick)
                label == Field(row, "label")
                bucketStart == Field(row, "bucket_start")
                chosen == IF Present(label) THEN label
                          ELSE IF Present(bucketStart) THEN bucketStart
                          ELSE NumberVal(Num(tick.index + 1))
                text == JsString(chosen).s
                shown == IF Len(text) > 10 THEN 10 ELSE Len(text)
            IN  /\ Len(tick.label) >= shown
                /\ SubSeq(tick.label, 1, shown) = SubSeq(text, 1, shown)
                /\ label = Str(<<>>) => tick.label = <<>>
                /\ label = NumberVal(Num(0)) => tick.label = <<"0">>
                /\ label = Bool(FALSE) =>
                       tick.label = <<"f", "a", "l", "s", "e">>
                /\ ~Present(label) /\ bucketStart = NumberVal(Num(12)) =>
                       tick.label = <<"1", "2">>
                /\ ~Present(label) /\ ~Present(bucketStart)
                   /\ tick.index = 19 => tick.label = <<"2", "0">>

\* A row whose label is null and whose bucket_start is 12 is labelled
\* "12", whatever its index.
C18_Witness ==
    /\ pc = "returned"
    /\ Len(input.data) = 2
    /\ Field(input.data[2], "label") = Null
    /\ Field(input.data[2], "bucket_start") = NumberVal(Num(12))
    /\ output.xTicks[2].index = 1
    /\ output.xTicks[2].label = <<"1", "2">>

(***************************************************************************)
(* The value gridlines (C19), under SpecAxes.                              *)
(***************************************************************************)
\* C19: whatever the dataset and the domain maximum, the vertical axis has
\* exactly 5 gridlines, at the values domainMax, 3/4, 1/2 and 1/4 of it and
\* 0, at the evenly spaced heights 20, 82, 144, 206 and 268 from the top of
\* the plot area to the baseline, each with the whole number nearest to
\* its value as its label.
C19_FiveEvenGridlines ==
    pc = "returned" =>
        /\ Len(output.yTicks) = 5
        /\ \A i \in 1..Len(output.yTicks) :
               LET tick == output.yTicks[i]
               IN  /\ JsMul(tick.value, Num(4))
                        = JsMul(input.maxValue, Num(5 - i))
                   /\ tick.y = Num(20 + (i - 1) * 62)
                   /\ IsFinite(tick.label) /\ tick.label.d = 1
                   /\ JsLt(JsSub(tick.value, Rat(1, 2)), tick.label)
                   /\ JsLe(tick.label, JsAdd(tick.value, Rat(1, 2)))
        /\ output.yTicks[1].y = Num(CHART_PADDING.top)
        /\ output.yTicks[5].y = Num(CHART_HEIGHT - CHART_PADDING.bottom)

C19_Witness ==
    /\ pc = "returned"
    /\ Len(input.data) = 3
    /\ input.maxValue = Rat(5, 2)
    /\ output.yTicks[2] = [value |-> Rat(15, 8), y |-> Num(82), label |-> Num(2)]
    /\ output.yTicks[5] = [value |-> Num(0), y |-> Num(268), label |-> Num(0)]

(***************************************************************************)
(* The line renderer (C20), under Spec.                                    *)
(***************************************************************************)
\* C20: for each resolved series the line renderer emits one polyline
\* with exactly one vertex per dataset row, in dataset order, vertex i at
\* (chartX(i, n), chartY(toNumber(row_i[dataKey]), domainMax)), and exactly
\* one marker per row, at the coordinates of the row's vertex.
C20_PolylineAndMarkersPerRow ==
    pc = "rendered" /\ input.kind = "line" =>
        LET n == Len(input.data)
        IN  /\ Len(output.shapes) = Len(output.series)
            /\ \A j \in 1..Len(output.shapes) :
                   LET shape == output.shapes[j]
                       dataKey == output.series[j].dataKey
                   IN  /\ Len(shape.polyline) = n
                       /\ Len(shape.circles) = n
                       /\ \A i \in 1..n :
                              /\ shape.polyline[i].x = chartX(i - 1, n)
                              /\ shape.polyline[i].y
                                   = chartY(toNumber(input.data[i][dataKey]).num,
                                            output.maxValue)
                              /\ shape.circles[i].cx = shape.polyline[i].x
                              /\ shape.circles[i].cy = shape.polyline[i].y
                       /\ n = 2 =>
                              /\ shape.polyline[1].x = Num(56)
                              /\ shape.polyline[2].x = Num(940)

\* Two rows and two series: the series "a" rises from 1/2 to the domain
\* maximum 3, the series "b" falls from 0 to -2.
C20_Witness ==
    /\ pc = "rendered"
    /\ input.kind = "line"
    /\ input.data = <<[a |-> NumberVal(Rat(1, 2)), b |-> Undefined],
                      [a |-> NumberVal(Num(3)), b |-> NumberVal(Num(-2))]>>
    /\ output.series = <<[dataKey |-> "a"], [dataKey |-> "b"]>>
    /\ output.shapes[1].polyline
         = <<[x |-> Num(56), y |-> Rat(680, 3)], [x |-> Num(940), y |-> Num(20)]>>
    /\ output.shapes[1].circles
         = <<[cx |-> Num(56), cy |-> Rat(680, 3)],
             [cx |-> Num(940), cy |-> Num(20)]>>
    /\ output.shapes[2].polyline[1] = [x |-> Num(56), y |-> Num(268)]

(***************************************************************************)
(* The area renderer (C21), under Spec.                                    *)
(***************************************************************************)
\* C21: for each resolved series the area renderer emits a polygon whose
\* vertices are (X of the first point, baseline), then the vertices of the
\* series' line in dataset order, then (X of the last point, baseline),
\* and a polyline with those same line vertices; the line vertices are
\* those the line renderer computes, one per row.
C21_PolygonClosesAgainstBaseline ==
    pc = "rendered" /\ input.kind = "area" =>
        LET n == Len(input.data)
        IN  /\ Len(output.shapes) = Len(output.series)
            /\ \A j \in 1..Len(output.shapes) :
                   LET shape == output.shapes[j]
                       dataKey == output.series[j].dataKey
                   IN  /\ Len(shape.polyline) = n
                       /\ Len(shape.polygon) = n + 2
                       /\ \A i \in 1..n :
                              /\ shape.polygon[i + 1] = shape.polyline[i]
                              /\ shape.polyline[i].x = chartX(i - 1, n)
                              /\ shape.polyline[i].y
                                   = chartY(toNumber(input.data[i][dataKey]).num,
                                            output.maxValue)
                       /\ n >= 1 =>
                              /\ shape.polygon[1]
                                   = [x |-> shape.polyline[1].x, y |-> Num(268)]
                              /\ shape.polygon[n + 2]
                                   = [x |-> shape.polyline[n].x, y |-> Num(268)]

\* Two rows and the series "a" rising from 1/2 to the domain maximum 3.
C21_Witness ==
    /\ pc = "rendered"
    /\ input.kind = "area"
    /\ input.data = <<[a |-> NumberVal(Rat(1, 2)), b |-> Undefined],
                      [a |-> NumberVal(Num(3)), b |-> NumberVal(Num(-2))]>>
    /\ output.series = <<[dataKey |-> "b"], [dataKey |-> "a"]>>
    /\ output.shapes[2].polygon
         = <<[x |-> Num(56), y |-> Num(268)],
             [x |-> Num(56), y |-> Rat(680, 3)],
             [x |-> Num(940), y |-> Num(20)],
             [x |-> Num(940), y |-> Num(268)]>>
    /\ output.shapes[2].polyline
         = <<[x |-> Num(56), y |-> Rat(680, 3)], [x |-> Num(940), y |-> Num(20)]>>

(***************************************************************************)
(* The degenerate cases of the mapper (C22, C23), under SpecMapper.        *)
(***************************************************************************)
\* C22: whenever total <= 1, chartX(index, total) is the left padding 56,
\* whatever the index: no quotient by total - 1 reaches the result.
C22_ChartXPinnedLeft ==
    pc = "returned" /\ input.fn = "chartX" /\ input.total <= 1 =>
        output = Num(56)

C22_Witness ==
    /\ pc = "returned"
    /\ input.fn = "chartX"
    /\ input.total = 1
    /\ input.index = 3
    /\ output = Num(56)

\* C23: whenever domainMax <= 0, chartY(value, domainMax) is the baseline
\* 320 - 52 = 268, whatever the value, finite or not.
C23_ChartYPinnedToBaseline ==
    pc = "returned" /\ input.fn = "chartY" /\ JsLe(input.maxValue, Num(0)) =>
        output = Num(268)

C23_Witness ==
    /\ pc = "returned"
    /\ input.fn = "chartY"
    /\ input.maxValue = Num(0)
    /\ input.value = Num(3)
    /\ output = Num(268)

(***************************************************************************)
(* The plotting rectangle (C24), under Spec.                               *)
(***************************************************************************)
InsidePlot(x, y) ==
    /\ JsLe(Num(56), x) /\ JsLe(x, Num(940))
    /\ JsLe(Num(20), y) /\ JsLe(y, Num(268))

\* C24: whatever the field values, negative ones included, every vertex
\* and every marker the line and area renderers draw lies inside the
\* plotting rectangle: X from 56 to 940 and Y from 20 to 268.
C24_VerticesInsidePlot ==
    pc = "rendered" /\ input.kind \in {"line", "area"} =>
        \A j \in 1..Len(output.shapes) :
            LET shape == output.shapes[j]
            IN  /\ \A i \in 1..Len(shape.polyline) :
                       InsidePlot(shape.polyline[i].x, shape.polyline[i].y)
                /\ input.kind = "line" =>
                       \A i \in 1..Len(shape.circles) :
                           InsidePlot(shape.circles[i].cx, shape.circles[i].cy)
                /\ input.kind = "area" =>
                       \A i \in 1..Len(shape.polygon) :
                           InsidePlot(shape.polygon[i].x, shape.polygon[i].y)

(***************************************************************************)
(* The bars' horizontal extent (C25), under SpecBars.                      *)
(***************************************************************************)
\* C25: for every number of data points and of series, each bar lies
\* horizontally inside the plotting rectangle, from 56 to 940, and inside
\* the slot of its own data point, from 56 + i * groupWidth to
\* 56 + (i + 1) * groupWidth with groupWidth = 884 / n.
C25_BarsInsideTheirSlot ==
    pc = "rendered" =>
        \A k \in 1..Len(output.shapes) :
            LET bar == output.shapes[k]
                n == Len(input.data)
                right == JsAdd(bar.x, bar.width)
            IN  /\ JsLe(Num(56), bar.x)
                /\ JsLe(right, Num(940))
                /\ JsLe(JsAdd(Num(56), Rat(884 * bar.dataIndex, n)), bar.x)
                /\ JsLe(right, JsAdd(Num(56), Rat(884 * (bar.dataIndex + 1), n)))

(***************************************************************************)
(* The value labels of the gridlines (C26), under SpecAxes.                *)
(***************************************************************************)
\* C26: for every domain maximum of at least 1, the five rounded labels of
\* the value gridlines decrease strictly from the top gridline to the
\* baseline.
C26_LabelsStrictlyDecreasing ==
    pc = "returned" /\ JsLe(Num(1), input.maxValue) =>
        \A i \in 1..(Len(output.yTicks) - 1) :
            JsLt(output.yTicks[i + 1].label, output.yTicks[i].label)

(***************************************************************************)
(* Ticks and bar groups (C27), under SpecBars.                             *)
(***************************************************************************)
\* C27: in the bar chart of n >= 1 data points, the tick of data point i
\* is at chartX(i, n), and that position lies within the slot of bar
\* group i: 56 + i * groupWidth <= chartX(i, n) <= 56 + (i + 1) * groupWidth
\* with groupWidth = 884 / n, for the ticks that are rendered and for
\* every other index as well.
C27_TickInsideItsGroupSlot ==
    pc = "rendered" /\ Len(input.data) >= 1 =>
        LET n == Len(input.data)
            InSlot(i, x) ==
                /\ JsLe(JsAdd(Num(56), Rat(884 * i, n)), x)
                /\ JsLe(x, JsAdd(Num(56), Rat(884 * (i + 1), n)))
        IN  /\ \A k \in 1..Len(output.axes.xTicks) :
                   /\ output.axes.xTicks[k].x
                        = chartX(output.axes.xTicks[k].index, n)
                   /\ InSlot(output.axes.xTicks[k].index,
                             output.axes.xTicks[k].x)
            /\ \A i \in 0..(n - 1) : InSlot(i, chartX(i, n))
            /\ JsMul(groupWidth(n), Num(n)) = Num(884)

\* 20 data points: the tick of index 8 is at 56 + 8 * 884 / 19, between
\* 56 + 8 * 44.2 and 56 + 9 * 44.2; the last tick is at the right end of
\* the last slot.
C27_Witness ==
    /\ pc = "rendered"
    /\ Len(input.data) = 20
    /\ Len(output.series) = 2
    /\ output.axes.xTicks[3].index = 8
    /\ output.axes.xTicks[3].x = Rat(8136, 19)
    /\ output.axes.xTicks[6].index = 19
    /\ output.axes.xTicks[6].x = Num(940)

(***************************************************************************)
(* The deployment log terminal (TerminalLogs.tsx).                         *)
(*                                                                         *)
(* A log line is modelled by its arrival number: the n-th line any socket  *)
(* has delivered is n.  A socket is a record of the deploymentId and the   *)
(* status that the connect() closure which created it had captured, its    *)
(* readyState and whether its error event has fired.  wsRef is the index   *)
(* of the socket wsRef.current holds, 0 for null.                          *)
(***************************************************************************)
MaxMessages == 3
MaxConnects == 2
MaxDeployments == 2

\* Array.prototype.slice(start): a negative start counts from the end.
jsSlice(array, start) ==
    LET len == Len(array)
        from == IF start < 0
                THEN (IF len + start < 0 THEN 0 ELSE len + start)
                ELSE (IF start > len THEN len ELSE start)
    IN  SubSeq(array, from + 1, len)

\* A state setter: React drops the update of a component that is not mounted.
setState(current, next) == IF phase = "mounted" THEN next ELSE current

\* What a message event can carry: a log message from which formatLog makes
\* count lines (an array may be empty), a log message from which it makes
\* nothing (null or the empty string), an error message, a message of
\* another type, and a payload on which the handler's try block throws.
Payload(kind, count) == [kind |-> kind, count |-> count]

\* connect() up to its await: the status is reset and the stream request is
\* sent, carrying what the closure captured of the render it belongs to.
connect(capturedId, capturedStatus) ==
    /\ Len(sockets) + Len(fetches) < MaxConnects
    /\ status' = "connecting"
    /\ error' = "null"
    /\ fetches' = Append(fetches, [deploymentId |-> capturedId,
                                   status |-> capturedStatus])

\* The effect's cleanup: only the socket wsRef.current holds is closed.
cleanup(created) ==
    IF wsRef # 0 /\ created[wsRef].readyState \in {"CONNECTING", "OPEN"}
    THEN [created EXCEPT ![wsRef].readyState = "CLOSING"]
    ELSE created

Without(seq, k) == [i \in 1..(Len(seq) - 1) |-> IF i < k THEN seq[i] ELSE seq[i + 1]]

\* The component mounts: the effect runs connect() of the first render.
Mount ==
    /\ phase = "initial"
    /\ phase' = "mounted"
    /\ connect(deploymentId, status)
    /\ UNCHANGED <<deploymentId, logLines, wsRef, sockets, messages, arrived>>
    /\ UNCHANGED chartVars

\* The deploymentId prop changes: the cleanup of the old effect runs, then
\* the effect runs connect() of the render with the new prop.
ChangeDeployment(id) ==
    /\ phase = "mounted"
    /\ id # deploymentId
    /\ deploymentId' = id
    /\ sockets' = cleanup(sockets)
    /\ connect(id, status)
    /\ UNCHANGED <<phase, logLines, wsRef, messages, arrived>>
    /\ UNCHANGED chartVars

\* The component unmounts: the cleanup of the effect runs.
Unmount ==
    /\ phase = "mounted"
    /\ phase' = "unmounted"
    /\ sockets' = cleanup(sockets)
    /\ UNCHANGED <<deploymentId, status, error, logLines, wsRef, fetches,
                   messages, arrived>>
    /\ UNCHANGED chartVars

\* A click on a reconnect button: connect() of the render on screen.
ReconnectClick ==
    /\ phase = "mounted"
    /\ connect(deploymentId, status)
    /\ UNCHANGED <<phase, deploymentId, logLines, wsRef, sockets, messages,
                   arrived>>
    /\ UNCHANGED chartVars

\* connect() after its await, the request having succeeded: the socket is
\* created, stored in wsRef.current and given its handlers.
StreamResolved(f) ==
    /\ f \in 1..Len(fetches)
    /\ sockets' = Append(sockets, [deploymentId |-> fetches[f].deploymentId,
                                   status |-> fetches[f].status,
                                   readyState |-> "CONNECTING",
                                   failed |-> FALSE])
    /\ wsRef' = Len(sockets) + 1
    /\ fetches' = Without(fetches, f)
    /\ UNCHANGED <<phase, deploymentId, status, error, logLines, messages,
                   arrived>>
    /\ UNCHANGED chartVars

\* connect() after its await, the request having failed or its answer
\* carrying an error or no URL: the catch block.
StreamRejected(f) ==
    /\ f \in 1..Len(fetches)
    /\ fetches' = Without(fetches, f)
    /\ status' = setState(status, "error")
    /\ error' = setState(error, "Failed to initialize log stream")
    /\ UNCHANGED <<phase, deploymentId, logLines, wsRef, sockets, messages,
                   arrived>>
    /\ UNCHANGED chartVars

\* ws.onopen.
onopen(s) ==
    /\ s \in 1..Len(sockets)
    /\ sockets[s].readyState = "CONNECTING"
    /\ sockets' = [sockets EXCEPT ![s].readyState = "OPEN"]
    /\ status' = setState(status, "connected")
    /\ UNCHANGED <<phase, deploymentId, error, logLines, wsRef, fetches,
                   messages, arrived>>
    /\ UNCHANGED chartVars

\* ws.onmessage.
onmessage(s, payload) ==
    /\ s \in 1..Len(sockets)
    /\ sockets[s].readyState = "OPEN"
    /\ messages < MaxMessages
    /\ messages' = messages + 1
    /\ CASE payload.kind = "log" ->
                LET newLines == [i \in 1..payload.count |-> arrived + i]
                IN  /\ logLines' =
                           setState(logLines,
                                    jsSlice(logLines, -1999 + Len(newLines))
                                        \o newLines)
                    /\ arrived' = arrived + payload.count
                    /\ UNCHANGED error
         [] payload.kind = "error" ->
                /\ error' = setState(error, "message")
                /\ UNCHANGED <<logLines, arrived>>
         [] payload.kind = "caught" ->
                /\ logLines' = setState(logLines,
                                        jsSlice(logLines, -1999)
                                            \o <<arrived + 1>>)
                /\ arrived' = arrived + 1
                /\ UNCHANGED error
         [] OTHER -> UNCHANGED <<error, logLines, arrived>>
    /\ UNCHANGED <<phase, deploymentId, status, wsRef, sockets, fetches>>
    /\ UNCHANGED chartVars

\* ws.onerror: the browser fires it when the connection fails, and closes
\* the socket afterwards.
onerror(s) ==
    /\ s \in 1..Len(sockets)
    /\ sockets[s].readyState \in {"CONNECTING", "OPEN"}
    /\ sockets' = [sockets EXCEPT ![s].readyState = "CLOSING",
                                  ![s].failed = TRUE]
    /\ status' = setState(status, "error")
    /\ error' = setState(error, "WebSocket connection failed.")
    /\ UNCHANGED <<phase, deploymentId, logLines, wsRef, fetches, messages,
                   arrived>>
    /\ UNCHANGED chartVars

\* ws.onclose: the status it tests is the one its connect() captured.
onclose(s) ==
    /\ s \in 1..Len(sockets)
    /\ sockets[s].readyState \in {"OPEN", "CLOSING"}
    /\ sockets' = [sockets EXCEPT ![s].readyState = "CLOSED"]
    /\ status' = IF sockets[s].status # "error"
                 THEN setState(status, "disconnected")
                 ELSE status
    /\ UNCHANGED <<phase, deploymentId, error, logLines, wsRef, fetches,
                   messages, arrived>>
    /\ UNCHANGED chartVars

\* clearLogs, the handler of the clear button.
clearLogs ==
    /\ phase = "mounted"
    /\ logLines' = <<>>
    /\ UNCHANGED <<phase, deploymentId, status, error, wsRef, sockets,
                   fetches, messages, arrived>>
    /\ UNCHANGED chartVars

ChartIdle ==
    /\ pc = "idle"
    /\ input = None
    /\ output = None

(***************************************************************************)
(* SpecTerminal: the life cycle of the component and of its sockets, with  *)
(* messages of at most one line.                                           *)
(***************************************************************************)
TerminalPayloads ==
    {Payload("log", 1), Payload("caught", 0), Payload("error", 0)}

InitTerminal ==
    /\ ChartIdle
    /\ TerminalInit

NextTerminal ==
    \/ Mount
    \/ \E id \in 1..MaxDeployments : ChangeDeployment(id)
    \/ Unmount
    \/ ReconnectClick
    \/ \E f \in 1..MaxConnects : StreamResolved(f)
    \/ \E f \in 1..MaxConnects : StreamRejected(f)
    \/ \E s \in 1..MaxConnects : onopen(s)
    \/ \E s \in 1..MaxConnects : \E payload \in TerminalPayloads :
           onmessage(s, payload)
    \/ \E s \in 1..MaxConnects : onerror(s)
    \/ \E s \in 1..MaxConnects : onclose(s)
    \/ clearLogs

SpecTerminal == InitTerminal /\ [][NextTerminal]_vars

(***************************************************************************)
(* SpecLogBuffer: one connected socket delivering messages of every kind,  *)
(* with batches on both sides of the 1999 of the handler.  It starts where *)
(* Mount, StreamResolved(1) and onopen(1) lead.                            *)
(***************************************************************************)
BatchSizes == {0, 1, 2, 1998, 1999, 2001}

BufferPayloads ==
    {Payload("log", count) : count \in BatchSizes}
        \cup {Payload("nothing", 0), Payload("other", 0),
              Payload("error", 0), Payload("caught", 0)}

InitLogBuffer ==
    /\ ChartIdle
    /\ phase = "mounted"
    /\ deploymentId = 1
    /\ status = "connected"
    /\ error = "null"
    /\ logLines = <<>>
    /\ wsRef = 1
    /\ sockets = <<[deploymentId |-> 1, status |-> "connecting",
                    readyState |-> "OPEN", failed |-> FALSE]>>
    /\ fetches = <<>>
    /\ messages = 0
    /\ arrived = 0

NextLogBuffer ==
    \/ \E payload \in BufferPayloads : onmessage(1, payload)
    \/ clearLogs

SpecLogBuffer == InitLogBuffer /\ [][NextLogBuffer]_vars

\* C28: the log buffer never holds more than 2000 lines, and the lines it
\* holds are the most recent ones delivered, in the order of their arrival,
\* whatever the messages were.
C28_BufferHoldsNewestTwoThousand ==
    /\ Len(logLines) <= 2000
    /\ \A i \in 1..Len(logLines) :
           logLines[i] = arrived - Len(logLines) + i

\* C29: at most one socket of the component is open at a time, and a socket
\* is open only while the component is mounted and for the deploymentId it
\* shows, so that none is left open behind a cleanup of the effect.
C29_OneSocketOfTheDeploymentShown ==
    /\ Cardinality({s \in 1..Len(sockets) :
                        sockets[s].readyState = "OPEN"}) <= 1
    /\ \A s \in 1..Len(sockets) :
           sockets[s].readyState = "OPEN"
               => /\ phase = "mounted"
                  /\ sockets[s].deploymentId = deploymentId

\* C30: when the socket wsRef.current holds closes under a mounted
\* component, the status is not "connected" afterwards: it is left as it
\* was if the socket's error event had fired, and is "disconnected"
\* otherwise.
C30_ClosedSocketNeverConnected ==
    [][\A s \in 1..Len(sockets) :
           (/\ s = wsRef
            /\ phase = "mounted"
            /\ sockets[s].readyState # "CLOSED"
            /\ Len(sockets') = Len(sockets)
            /\ sockets'[s].readyState = "CLOSED")
               => /\ status' # "connected"
                  /\ sockets[s].failed => status' = status
                  /\ ~sockets[s].failed => status' = "disconnected"]_vars

====
